---- MODULE Spec2Model ----
(***************************************************************************)
(* zk-bbp: a host ("Witness Assembler") and three risc0 guest programs     *)
(* ("Constrained Evaluators") that bind a balance-loss claim to calldata   *)
(* and bytecode.                                                           *)
(*                                                                         *)
(*   src/methods/guest/src/bin/guest.rs  pre/post evaluator (u256 bytes)   *)
(*   src/methods/guest/src/bin/main.rs   single-balance evaluator          *)
(*   src/guest/src/main.rs               128-bit pre/post evaluator        *)
(*   src/host/src/main.rs                host                              *)
(*                                                                         *)
(* Representation.  A [u8; N] or Vec<u8> is a sequence of 0..255, index    *)
(* i of the source being index i+1 here.  TLC's integers are 32 bits       *)
(* wide, so a u128 of guest.rs/main.rs is kept as its eight 16-bit limbs,  *)
(* least significant limb first; u16 arithmetic keeps its width (% 2^16).  *)
(* SHA-256 is an uninterpreted injective function: the digest of a byte    *)
(* string is the record [sha256 |-> string].                               *)
(***************************************************************************)
EXTENDS Integers, Sequences, FiniteSets, TLC

\* ---------------------------------------------------------------- widths

U256Len == 32

HalfLen == 16

PrePostLen == 64

SelectorLen == 4

ByteRadix == 256

U16Mod == 65536

U128Limbs == 8

\* ---------------------------------------------------------------- bounds

\* longest bytecode blob drawn as an input
MaxCodeLen == 1

\* longest calldata tail drawn after the three bytes 0xde 0xad 0xbe
MaxTailLen == 2

\* largest small byte value drawn as a digit of a balance (besides 0 and 255)
MaxSmallByte == 1

\* largest balance and threshold of the 128-bit evaluator's inputs
MaxBal == 4

\* largest block number drawn as a host argument or RPC answer
MaxBlock == 1

\* ---------------------------------------------------------------- bytes

Zeros(n) == [i \in 1..n |-> 0]

RECURSIVE SeqsUpTo(_, _)
\* all sequences over S of length at most n
SeqsUpTo(S, n) ==
    IF n = 0 THEN {<<>>}
    ELSE LET shorter == SeqsUpTo(S, n - 1)
         IN  shorter \cup {Append(s, x) : s \in {t \in shorter : Len(t) = n - 1}, x \in S}

\* u16::wrapping_sub and u16::wrapping_add
WrappingSub16(x, y) == (x - y + U16Mod) % U16Mod

WrappingAdd16(x, y) == (x + y) % U16Mod

\* ------------------------------------------------- u128 (16-bit limbs, LE)

\* u128::from_be_bytes: bytes b[1] (most significant) .. b[16]
U128FromBeBytes(b) ==
    [k \in 1..U128Limbs |->
        b[HalfLen - 2 * k + 1] * ByteRadix + b[HalfLen - 2 * k + 2]]

RECURSIVE U128GeFrom(_, _, _)
\* x >= y on u128, deciding from limb k downwards
U128GeFrom(x, y, k) ==
    IF k = 0 THEN TRUE
    ELSE IF x[k] # y[k] THEN x[k] > y[k]
    ELSE U128GeFrom(x, y, k - 1)

U128Gt(x, y) == x # y /\ U128GeFrom(x, y, U128Limbs)

U128Ge(x, y) == U128GeFrom(x, y, U128Limbs)

\* ------------------------------------- guest.rs: big-endian arithmetic

\* a loop that never clears the borrow flag once it is set
SubStepStickyBorrow(a, b, i, borrow) ==
    LET av == a[i + 1]
        bv == b[i + 1]
        d0 == WrappingSub16(av, bv + borrow)
        lt == av < bv + borrow
        diff == IF lt THEN WrappingAdd16(d0, ByteRadix) ELSE d0
    IN  [byte |-> diff % ByteRadix, borrow |-> IF lt \/ borrow = 1 THEN 1 ELSE 0]

\* one iteration of the loop of sub_u256_be_saturating, at source index i
SubStep(a, b, i, borrow) ==
    LET av == a[i + 1]
        bv == b[i + 1]
        d0 == WrappingSub16(av, bv + borrow)
        lt == av < bv + borrow
        diff == IF lt THEN WrappingAdd16(d0, ByteRadix) ELSE d0
    IN  [byte |-> diff % ByteRadix, borrow |-> IF lt THEN 1 ELSE 0]

RECURSIVE SubLoop(_, _, _, _, _)
\* for i in (0..32).rev()
SubLoop(a, b, i, borrow, out) ==
    IF i < 0 THEN [out |-> out, borrow |-> borrow]
    ELSE LET s == SubStep(a, b, i, borrow)
         IN  SubLoop(a, b, i - 1, s.borrow, [out EXCEPT ![i + 1] = s.byte])

\* a subtraction that returns the wrapped bytes whatever the final borrow
sub_u256_be_wrapping(a, b) ==
    SubLoop(a, b, U256Len - 1, 0, Zeros(U256Len)).out

\* guest.rs sub_u256_be_saturating
sub_u256_be_saturating(a, b) ==
    LET r == SubLoop(a, b, U256Len - 1, 0, Zeros(U256Len))
    IN  IF r.borrow # 0 THEN Zeros(U256Len) ELSE r.out

\* a comparison that is strict on the low half
ge_u256_vs_u128_strict(a, thr) ==
    IF \E i \in 1..HalfLen : a[i] # 0 THEN TRUE
    ELSE U128Gt(U128FromBeBytes(SubSeq(a, HalfLen + 1, U256Len)), thr)

\* guest.rs and main.rs ge_u256_vs_u128
ge_u256_vs_u128(a, thr) ==
    IF \E i \in 1..HalfLen : a[i] # 0 THEN TRUE
    ELSE U128Ge(U128FromBeBytes(SubSeq(a, HalfLen + 1, U256Len)), thr)

\* ------------------------------------------------------------ commitment

\* sha256 as an injective function of the hashed byte string
Sha256(bytes) == [sha256 |-> bytes]

\* b"BBP"
BBP == <<66, 66, 80>>

\* the four bytes of a u32, least significant byte first
U32ToLeBytes(n) ==
    << n % ByteRadix, (n \div ByteRadix) % ByteRadix,
       (n \div (ByteRadix * ByteRadix)) % ByteRadix,
       (n \div (ByteRadix * ByteRadix * ByteRadix)) % ByteRadix >>

\* u32::to_be_bytes (the lengths drawn here are far below 2^32, so the cast
\* `len() as u32` changes nothing)
U32ToBeBytes(n) ==
    << (n \div (ByteRadix * ByteRadix * ByteRadix)) % ByteRadix,
       (n \div (ByteRadix * ByteRadix)) % ByteRadix,
       (n \div ByteRadix) % ByteRadix,
       n % ByteRadix >>

\* sha::Impl / Sha256 as a stream: the state is the bytes absorbed so far
ShaNew == <<>>

ShaUpdate(st, data) == st \o data

ShaFinalize(st) == Sha256(st)

\* guest.rs write_len
write_len(st, n) == ShaUpdate(st, U32ToBeBytes(n))

\* a commitment without the length tags
commit_all_untagged(pre_post, cd, tc, ac) ==
    ShaFinalize(ShaUpdate(ShaUpdate(ShaUpdate(ShaUpdate(ShaUpdate(ShaNew,
        BBP), pre_post), cd), tc), ac))

\* guest.rs commit_all
commit_all(pre_post, cd, tc, ac) ==
    LET s0 == ShaUpdate(ShaNew, BBP)
        s1 == ShaUpdate(write_len(s0, Len(pre_post)), pre_post)
        s2 == ShaUpdate(write_len(s1, Len(cd)), cd)
        s3 == ShaUpdate(write_len(s2, Len(tc)), tc)
        s4 == ShaUpdate(write_len(s3, Len(ac)), ac)
    IN  ShaFinalize(s4)

\* main.rs commit_all: the bytes are gathered in a Vec and hashed at once
commit_all_single(bal, cd, tc, ac) ==
    LET d0 == BBP
        d1 == (d0 \o U32ToBeBytes(Len(bal))) \o bal
        d2 == (d1 \o U32ToBeBytes(Len(cd))) \o cd
        d3 == (d2 \o U32ToBeBytes(Len(tc))) \o tc
        d4 == (d3 \o U32ToBeBytes(Len(ac))) \o ac
    IN  Sha256(d4)

\* a host commitment that tags each length little-endian
commit_all_host_le(pre_post, cd, tc, ac) ==
    LET h0 == ShaUpdate(ShaNew, BBP)
        h1 == ShaUpdate(ShaUpdate(h0, U32ToLeBytes(Len(pre_post))), pre_post)
        h2 == ShaUpdate(ShaUpdate(h1, U32ToLeBytes(Len(cd))), cd)
        h3 == ShaUpdate(ShaUpdate(h2, U32ToLeBytes(Len(tc))), tc)
        h4 == ShaUpdate(ShaUpdate(h3, U32ToLeBytes(Len(ac))), ac)
    IN  ShaFinalize(h4)

\* host main.rs commit_all_host
commit_all_host(pre_post, cd, tc, ac) ==
    LET h0 == ShaUpdate(ShaNew, BBP)
        h1 == ShaUpdate(ShaUpdate(h0, U32ToBeBytes(Len(pre_post))), pre_post)
        h2 == ShaUpdate(ShaUpdate(h1, U32ToBeBytes(Len(cd))), cd)
        h3 == ShaUpdate(ShaUpdate(h2, U32ToBeBytes(Len(tc))), tc)
        h4 == ShaUpdate(ShaUpdate(h3, U32ToBeBytes(Len(ac))), ac)
    IN  ShaFinalize(h4)

\* ----------------------------------------------------------------- state

VARIABLES
    \* the evaluators of methods/guest/src/bin (guest.rs, main.rs)
    variant,        \* "prepost" (guest.rs) or "single" (main.rs)
    stdin,          \* what env::read will return, in order
    pubin,          \* PublicInputs, once read
    balance,        \* pre_post: [u8; 64] (guest.rs) or balance: [u8; 32] (main.rs)
    calldata,
    target_code,
    asset_code,
    gpc,            \* position in main
    gerr,           \* the panic message of an aborted run
    journal,        \* what env::commit has emitted
    \* the arithmetic helpers applied on their own
    f_pc, f_pre, f_post, f_thr, f_loss, f_ge,
    \* the two commitment functions applied on their own
    k_blobs, k_host, k_guest,
    \* the host
    hargs, hpc, herr, pre_block, post_block, pre_balance, printed, outfile,
    \* the 128-bit evaluator (src/guest/src/main.rs)
    s_pc, s_public, s_private, s_journal

guestVars ==
    <<variant, stdin, pubin, balance, calldata, target_code, asset_code,
      gpc, gerr, journal>>

fnVars == <<f_pc, f_pre, f_post, f_thr, f_loss, f_ge>>

commitVars == <<k_blobs, k_host, k_guest>>

hostVars ==
    <<hargs, hpc, herr, pre_block, post_block, pre_balance, printed, outfile>>

simpleVars == <<s_pc, s_public, s_private, s_journal>>

vars == <<guestVars, fnVars, commitVars, hostVars, simpleVars>>

None == "none"

GuestIdle ==
    /\ variant = None /\ stdin = <<>> /\ pubin = None /\ balance = <<>>
    /\ calldata = <<>> /\ target_code = <<>> /\ asset_code = <<>>
    /\ gpc = "idle" /\ gerr = None /\ journal = <<>>

FnIdle ==
    /\ f_pc = "idle" /\ f_pre = <<>> /\ f_post = <<>> /\ f_thr = None
    /\ f_loss = None /\ f_ge = None

\* k_host, k_guest: <<>> until the function is applied, then <<digest>>
CommitIdle == k_blobs = None /\ k_host = <<>> /\ k_guest = <<>>

\* an Option or a not yet assigned local is <<>> or <<value>>; herr is the
\* chain of error messages main returns, outermost context first
HostIdle ==
    /\ hargs = None /\ hpc = "idle" /\ herr = <<>> /\ pre_block = <<>>
    /\ post_block = <<>> /\ pre_balance = <<>> /\ printed = <<>> /\ outfile = None

SimpleIdle ==
    s_pc = "idle" /\ s_public = None /\ s_private = None /\ s_journal = <<>>

\* ---------------------------------------------------------------- inputs

\* a 32-byte big-endian value with the given bytes at source indices 0, 15,
\* 16 and 31 (the ends of the high and of the low half) and zeros elsewhere
U256At(b0, b15, b16, b31) ==
    [i \in 1..U256Len |->
        CASE i = 1 -> b0
          [] i = HalfLen -> b15
          [] i = HalfLen + 1 -> b16
          [] i = U256Len -> b31
          [] OTHER -> 0]

\* the 32-byte big-endian encoding of n < 2^16
U256OfSmall(n) ==
    [i \in 1..U256Len |->
        CASE i = U256Len -> n % ByteRadix
          [] i = U256Len - 1 -> n \div ByteRadix
          [] OTHER -> 0]

\* the u128 n < 2^16
U128OfSmall(n) == [k \in 1..U128Limbs |-> IF k = 1 THEN n ELSE 0]

U128Max == [k \in 1..U128Limbs |-> U16Mod - 1]

ByteSamples == {0, ByteRadix - 1} \cup (1..MaxSmallByte)

\* balances whose difference borrows across the whole array
U256Samples ==
    {U256At(b0, b15, b16, b31) :
        b0 \in {0, ByteRadix - 1}, b15 \in ByteSamples, b16 \in {0, ByteRadix - 1},
        b31 \in ByteSamples}

U128Samples ==
    {U128Max} \cup
    {[k \in 1..U128Limbs |-> CASE k = 1 -> lo [] k = U128Limbs -> hi [] OTHER -> 0] :
        lo \in {0, 1, ByteRadix - 1, ByteRadix, U16Mod - 1},
        hi \in {0, ByteRadix, U16Mod - ByteRadix, U16Mod - 1}}

\* the balances and thresholds of the evaluator runs (scenarios A, B, E)
GuestBalances ==
    {U256OfSmall(0), U256OfSmall(3000), U256OfSmall(5000), U256At(0, 1, 0, 0),
     U256At(0, 1, 0, 1)}

GuestThresholds ==
    {U128OfSmall(0), U128OfSmall(1), U128OfSmall(1000), U128OfSmall(2000),
     U128OfSmall(2001), U128Max}

CodeBytes == {96}

Codes == SeqsUpTo(CodeBytes, MaxCodeLen)

CalldataStem == <<222, 173, 190>>

\* 0xdeadbe followed by a tail of 0x00 and 0xef bytes, and every prefix of it
Calldatas ==
    UNION {{SubSeq(CalldataStem \o t, 1, n) : n \in 0..(Len(CalldataStem) + Len(t))} :
               t \in SeqsUpTo({0, 239}, MaxTailLen)}

Selectors == {CalldataStem \o <<x>> : x \in {0, 239}}

AssetAddr == [i \in 1..20 |-> 170]

TargetAddr == [i \in 1..20 |-> 187]

\* ------------------------------------------ the evaluators: guest.rs, main.rs

\* the commitment the evaluator recomputes (guest.rs:28, main.rs:28)
Recommit(var, bal, cd, tc, ac) ==
    IF var = "prepost" THEN commit_all(bal, cd, tc, ac)
    ELSE commit_all_single(bal, cd, tc, ac)

\* a commitment check that accepts everything
CommitmentMatchesAlways(var, bal, cd, tc, ac, pub) == TRUE

\* assert_eq!(commitment, pubin.commitment)
CommitmentMatches(var, bal, cd, tc, ac, pub) ==
    Recommit(var, bal, cd, tc, ac) = pub.commitment

\* assert!(calldata.len() >= 4)
CalldataLongEnough(cd) == Len(cd) >= SelectorLen

\* a selector check that compares only the first three bytes
SelectorMatchesThree(cd, pub) ==
    SubSeq(cd, 1, SelectorLen - 1) = SubSeq(pub.selector, 1, SelectorLen - 1)

\* assert_eq!(&calldata[0..4], &pubin.selector)
SelectorMatches(cd, pub) == SubSeq(cd, 1, SelectorLen) = pub.selector

\* assert_eq!(t_sha.as_bytes(), &pubin.target_code_sha256)
TargetDigestMatches(tc, pub) == Sha256(tc) = pub.target_code_sha256

\* assert_eq!(a_sha.as_bytes(), &pubin.asset_code_sha256)
AssetDigestMatches(ac, pub) == Sha256(ac) = pub.asset_code_sha256

\* a record built from the wrapped difference
PrePostOutputsWrapping(pub, pre_post) ==
    LET loss == sub_u256_be_wrapping(SubSeq(pre_post, 1, U256Len),
                                     SubSeq(pre_post, U256Len + 1, PrePostLen))
    IN  [threshold |-> pub.threshold,
         loss_hi |-> SubSeq(loss, 1, HalfLen),
         loss_lo |-> SubSeq(loss, HalfLen + 1, U256Len),
         loss_ge_threshold |-> ge_u256_vs_u128(loss, pub.threshold),
         selector |-> pub.selector, asset |-> pub.asset, target |-> pub.target]

\* guest.rs:42-65, the PublicOutputs of the pre/post evaluator
PrePostOutputs(pub, pre_post) ==
    LET pre == SubSeq(pre_post, 1, U256Len)
        post == SubSeq(pre_post, U256Len + 1, PrePostLen)
        loss == sub_u256_be_saturating(pre, post)
        ge == ge_u256_vs_u128(loss, pub.threshold)
    IN  [threshold |-> pub.threshold,
         loss_hi |-> SubSeq(loss, 1, HalfLen),
         loss_lo |-> SubSeq(loss, HalfLen + 1, U256Len),
         loss_ge_threshold |-> ge,
         selector |-> pub.selector, asset |-> pub.asset, target |-> pub.target]

\* main.rs:42-62, the PublicOutputs of the single-balance evaluator
SingleOutputs(pub, bal) ==
    LET potential_loss == bal
        can_drain == ge_u256_vs_u128(potential_loss, pub.threshold)
    IN  [threshold |-> pub.threshold,
         potential_loss_hi |-> SubSeq(potential_loss, 1, HalfLen),
         potential_loss_lo |-> SubSeq(potential_loss, HalfLen + 1, U256Len),
         can_drain_above_threshold |-> can_drain,
         selector |-> pub.selector, asset |-> pub.asset, target |-> pub.target]

\* the five env::read calls, in the order of lines 15-25
GuestRead ==
    /\ gpc = "start"
    /\ pubin' = stdin[1]
    /\ balance' = stdin[2]
    /\ calldata' = stdin[3]
    /\ target_code' = stdin[4]
    /\ asset_code' = stdin[5]
    /\ stdin' = <<>>
    /\ gpc' = "check_commitment"
    /\ UNCHANGED <<variant, gerr, journal>>
    /\ UNCHANGED <<fnVars, commitVars, hostVars, simpleVars>>

\* a failed assertion panics: the run ends with the message and no commit
GuestAssert(ok, next, msg) ==
    /\ gpc' = IF ok THEN next ELSE "aborted"
    /\ gerr' = IF ok THEN gerr ELSE msg
    /\ UNCHANGED <<variant, stdin, pubin, balance, calldata, target_code,
                   asset_code, journal>>
    /\ UNCHANGED <<fnVars, commitVars, hostVars, simpleVars>>

GuestCheckCommitment ==
    /\ gpc = "check_commitment"
    /\ GuestAssert(CommitmentMatches(variant, balance, calldata, target_code,
                                     asset_code, pubin),
                   "check_calldata_len", "commitment mismatch")

GuestCheckCalldataLen ==
    /\ gpc = "check_calldata_len"
    /\ GuestAssert(CalldataLongEnough(calldata), "check_selector", "calldata too short")

GuestCheckSelector ==
    /\ gpc = "check_selector"
    /\ GuestAssert(SelectorMatches(calldata, pubin), "check_target_digest",
                   "selector mismatch")

GuestCheckTargetDigest ==
    /\ gpc = "check_target_digest"
    /\ GuestAssert(TargetDigestMatches(target_code, pubin), "check_asset_digest",
                   "target code digest mismatch")

GuestCheckAssetDigest ==
    /\ gpc = "check_asset_digest"
    /\ GuestAssert(AssetDigestMatches(asset_code, pubin), "commit",
                   "asset code digest mismatch")

\* the arithmetic and env::commit(&out)
GuestCommit ==
    /\ gpc = "commit"
    /\ journal' = Append(journal,
                         IF variant = "prepost" THEN PrePostOutputs(pubin, balance)
                         ELSE SingleOutputs(pubin, balance))
    /\ gpc' = "done"
    /\ UNCHANGED <<variant, stdin, pubin, balance, calldata, target_code,
                   asset_code, gerr>>
    /\ UNCHANGED <<fnVars, commitVars, hostVars, simpleVars>>

\* ---- the inputs of an evaluator run

Blobs(bal, cd, tc, ac) == <<bal, cd, tc, ac>>

\* the tuple with the blobs at positions i and j exchanged
SwapBlobs(w, i, j) ==
    [k \in 1..4 |-> IF k = i THEN w[j] ELSE IF k = j THEN w[i] ELSE w[k]]

\* the tuple with the last byte of blob i dropped
TruncateBlob(w, i) == [w EXCEPT ![i] = SubSeq(w[i], 1, Len(w[i]) - 1)]

SwapsOf(w) == {SwapBlobs(w, i, j) : i, j \in 1..4}

TruncationsOf(w) == {TruncateBlob(w, i) : i \in {k \in 1..4 : Len(w[k]) > 0}}

\* the commitments a prover may declare for the witness w: that of w itself
\* and those of w with two blobs exchanged or one blob cut by a byte
DeclaredCommitments(var, w) ==
    {Recommit(var, v[1], v[2], v[3], v[4]) : v \in SwapsOf(w) \cup TruncationsOf(w)}

PubinsFor(var, w, thrs) ==
    [threshold : thrs,
     commitment : DeclaredCommitments(var, w),
     asset : {AssetAddr},
     target : {TargetAddr},
     selector : Selectors,
     target_code_sha256 : {Sha256(c) : c \in Codes},
     asset_code_sha256 : {Sha256(c) : c \in Codes}]

ScenarioA == U256OfSmall(5000) \o U256OfSmall(3000)

BalancesOf(var) ==
    IF var = "prepost" THEN {a \o b : a, b \in GuestBalances} ELSE GuestBalances

\* the public inputs the host would declare for w (selector: the first four
\* bytes of the calldata)
HonestPubin(var, w, thr) ==
    [threshold |-> thr,
     commitment |-> Recommit(var, w[1], w[2], w[3], w[4]),
     asset |-> AssetAddr,
     target |-> TargetAddr,
     selector |-> SubSeq(w[2], 1, SelectorLen),
     target_code_sha256 |-> Sha256(w[3]),
     asset_code_sha256 |-> Sha256(w[4])]

HonestWitness(bal) == Blobs(bal, CalldataStem \o <<239>>, <<96>>, <<>>)

Variants == {"prepost", "single"}

\* a run of the evaluator `var` over the input stream `stream`
GuestStart(var, stream) ==
    /\ variant = var
    /\ stdin = stream
    /\ pubin = None /\ balance = <<>> /\ calldata = <<>>
    /\ target_code = <<>> /\ asset_code = <<>>
    /\ gpc = "start" /\ gerr = None /\ journal = <<>>

InputStream(pub, w) == <<pub, w[1], w[2], w[3], w[4]>>

\* runs that vary the bindings, over a loss that meets the threshold
BindingRuns ==
    \E var \in Variants, cd \in Calldatas, tc \in Codes, ac \in Codes :
        LET w == Blobs(IF var = "prepost" THEN ScenarioA ELSE U256OfSmall(5000),
                       cd, tc, ac)
        IN  \E pub \in PubinsFor(var, w, {U128OfSmall(1000)}) :
                GuestStart(var, InputStream(pub, w))

\* runs that vary the balances and the threshold, with every binding honest
ArithmeticRuns ==
    \E var \in Variants :
        \E bal \in BalancesOf(var), thr \in GuestThresholds :
            GuestStart(var, InputStream(HonestPubin(var, HonestWitness(bal), thr),
                                        HonestWitness(bal)))

\* host main.rs:70-111: what the host makes of the fetched balances and
\* bytecode, the calldata file, the parsed threshold and addresses: the
\* values it writes to the ExecutorEnv, in the order of its write calls
host_assemble(pre_bal, post_bal, tc, ac, cd, threshold, asset20, target20) ==
    IF Len(cd) < SelectorLen
    THEN [ok |-> FALSE, val |-> <<>>,
          err |-> "calldata must be at least 4 bytes (needs a function selector)"]
    ELSE LET target_sha == Sha256(tc)
             asset_sha == Sha256(ac)
             selector == SubSeq(cd, 1, SelectorLen)
             pre_post == pre_bal \o post_bal
             commitment == commit_all_host(pre_post, cd, tc, ac)
             pub == [threshold |-> threshold,
                     commitment |-> commitment,
                     asset |-> asset20,
                     target |-> target20,
                     selector |-> selector,
                     target_code_sha256 |-> target_sha,
                     asset_code_sha256 |-> asset_sha]
         IN  [ok |-> TRUE, val |-> <<pub, pre_post, cd, tc, ac>>, err |-> ""]

\* runs of the pre/post evaluator over what the host would write
AssembledRuns ==
    \E pre \in GuestBalances, post \in GuestBalances, cd \in Calldatas,
       tc \in Codes, ac \in Codes, thr \in GuestThresholds :
        LET r == host_assemble(pre, post, tc, ac, cd, thr, AssetAddr, TargetAddr)
        IN  r.ok /\ GuestStart("prepost", r.val)

Init ==
    /\ BindingRuns \/ ArithmeticRuns \/ AssembledRuns
    /\ FnIdle /\ CommitIdle /\ HostIdle /\ SimpleIdle

Next ==
    \/ GuestRead
    \/ GuestCheckCommitment
    \/ GuestCheckCalldataLen
    \/ GuestCheckSelector
    \/ GuestCheckTargetDigest
    \/ GuestCheckAssetDigest
    \/ GuestCommit

Spec == Init /\ [][Next]_vars

\* ------------------------------------------------- reference definitions
\* What the claims speak of, stated without the program's own helpers.

\* the 4-byte big-endian length tag LEN(x)
RefLen4(x) == <<0, 0, Len(x) \div 256, Len(x) % 256>>

\* "BBP" || LEN(b1) || b1 || LEN(b2) || b2 || LEN(b3) || b3 || LEN(b4) || b4
RefTagged(w) ==
    <<66, 66, 80>> \o RefLen4(w[1]) \o w[1] \o RefLen4(w[2]) \o w[2]
                   \o RefLen4(w[3]) \o w[3] \o RefLen4(w[4]) \o w[4]

RECURSIVE RefGeFrom(_, _, _)
\* a >= b for big-endian byte strings of equal length, deciding from index i
RefGeFrom(a, b, i) ==
    IF i > Len(a) THEN TRUE
    ELSE IF a[i] # b[i] THEN a[i] > b[i]
    ELSE RefGeFrom(a, b, i + 1)

RefGe(a, b) == RefGeFrom(a, b, 1)

RECURSIVE RefAddFrom(_, _, _, _)
\* the carry out of a[1..i] + b[1..i] + carry equalling c[1..i] digit by
\* digit from the right, or -1 when some digit differs
RefAddFrom(a, b, c, i) ==
    IF i > Len(a) THEN 0
    ELSE LET cin == RefAddFrom(a, b, c, i + 1)
         IN  IF cin < 0 \/ (a[i] + b[i] + cin) % 256 # c[i] THEN -1
             ELSE (a[i] + b[i] + cin) \div 256

\* a + b = c as unsigned big-endian integers, with no carry out
RefSumIs(a, b, c) == RefAddFrom(a, b, c, 1) = 0

\* d = max(pre - post, 0) on 256-bit unsigned big-endian integers
RefIsLoss(d, pre, post) ==
    IF RefGe(pre, post) THEN RefSumIs(d, post, pre) ELSE d = [i \in 1..32 |-> 0]

\* the 32-byte big-endian encoding of a u128 held as 16-bit limbs
RefU128AsU256(t) ==
    [i \in 1..32 |->
        IF i <= 16 THEN 0
        ELSE LET limb == t[(32 - i) \div 2 + 1]
             IN  IF (32 - i) % 2 = 1 THEN limb \div 256 ELSE limb % 256]

\* ---- what an evaluator run was given (valid once the inputs are read)

Read == gpc \notin {"idle", "start"}

Ended == gpc \in {"done", "aborted"}

Witness == <<balance, calldata, target_code, asset_code>>

RefCommitmentOk == pubin.commitment = [sha256 |-> RefTagged(Witness)]

RefLengthOk == Len(calldata) >= 4

RefSelectorOk == RefLengthOk /\ \A i \in 1..4 : calldata[i] = pubin.selector[i]

RefTargetOk == pubin.target_code_sha256 = [sha256 |-> target_code]

RefAssetOk == pubin.asset_code_sha256 = [sha256 |-> asset_code]

RefAllOk ==
    RefCommitmentOk /\ RefLengthOk /\ RefSelectorOk /\ RefTargetOk /\ RefAssetOk

\* ----------------------------------------------------------------- claims

\* C3: the result record is emitted at most once, and only after the
\* commitment, calldata-length, selector and both code-digest checks have
\* passed; a run in which a check fails ends aborted with nothing emitted.
C3_EmitOnceAfterAllChecks ==
    /\ Len(journal) <= 1
    /\ journal # <<>> => gpc = "done" /\ RefAllOk
    /\ gpc = "aborted" => journal = <<>>
    /\ (Ended /\ ~RefAllOk) => gpc = "aborted" /\ journal = <<>>

C3_Witness == gpc = "done" /\ Len(journal) = 1 /\ RefAllOk

\* C5: each binding failure aborts with its own error and no record, even
\* when the loss meets the threshold: the first failing check, in the order
\* commitment, length, selector, target digest, asset digest, names the error.
C5_EachFailureAborts ==
    Ended =>
        /\ ~RefCommitmentOk =>
              gpc = "aborted" /\ gerr = "commitment mismatch" /\ journal = <<>>
        /\ (RefCommitmentOk /\ ~RefLengthOk) =>
              gpc = "aborted" /\ gerr = "calldata too short" /\ journal = <<>>
        /\ (RefCommitmentOk /\ RefLengthOk /\ ~RefSelectorOk) =>
              gpc = "aborted" /\ gerr = "selector mismatch" /\ journal = <<>>
        /\ (RefCommitmentOk /\ RefSelectorOk /\ ~RefTargetOk) =>
              gpc = "aborted" /\ gerr = "target code digest mismatch" /\ journal = <<>>
        /\ (RefCommitmentOk /\ RefSelectorOk /\ RefTargetOk /\ ~RefAssetOk) =>
              gpc = "aborted" /\ gerr = "asset code digest mismatch" /\ journal = <<>>

\* scenario C: calldata 0xdeadbeef against selector 0xdeadbe00, every other
\* binding honest, pre = 5000, post = 3000, threshold = 1000
C5_Witness ==
    /\ gpc = "aborted" /\ gerr = "selector mismatch" /\ journal = <<>>
    /\ calldata = <<222, 173, 190, 239>> /\ pubin.selector = <<222, 173, 190, 0>>
    /\ RefCommitmentOk /\ RefTargetOk /\ RefAssetOk
    /\ variant = "prepost" /\ balance = ScenarioA

Pre == SubSeq(balance, 1, 32)

Post == SubSeq(balance, 33, 64)

\* C6: a pre/post run that passes every check emits a record that is a
\* function of its inputs: threshold, selector, asset and target are the
\* declared ones, loss_hi || loss_lo is max(pre - post, 0) and
\* loss_ge_threshold is loss >= threshold; a run with pre < post and a
\* positive threshold is not aborted; pre = 5000, post = 3000, threshold =
\* 1000 gives loss 2000 and true.
C6_RecordIsFunctionOfInputs ==
    (variant = "prepost" /\ Ended) =>
        /\ RefAllOk => gpc = "done" /\ Len(journal) = 1
        /\ gpc = "done" =>
              LET out == journal[1]
                  loss == out.loss_hi \o out.loss_lo
              IN  /\ out.threshold = pubin.threshold
                  /\ out.selector = pubin.selector
                  /\ out.asset = pubin.asset
                  /\ out.target = pubin.target
                  /\ Len(out.loss_hi) = 16 /\ Len(out.loss_lo) = 16
                  /\ RefIsLoss(loss, Pre, Post)
                  /\ out.loss_ge_threshold = RefGe(loss, RefU128AsU256(pubin.threshold))
                  /\ (balance = ScenarioA /\ pubin.threshold = U128OfSmall(1000)) =>
                        loss = U256OfSmall(2000) /\ out.loss_ge_threshold = TRUE

\* scenario B: pre = 3000, post = 5000, threshold = 1000 gives loss 0, false
C6_Witness ==
    /\ variant = "prepost" /\ gpc = "done"
    /\ Pre = U256OfSmall(3000) /\ Post = U256OfSmall(5000)
    /\ pubin.threshold = U128OfSmall(1000)
    /\ journal = <<[threshold |-> U128OfSmall(1000), loss_hi |-> Zeros(16),
                    loss_lo |-> Zeros(16), loss_ge_threshold |-> FALSE,
                    selector |-> pubin.selector, asset |-> AssetAddr,
                    target |-> TargetAddr]>>

\* C7 as stated: exchanging any two blobs, or cutting any blob by a byte,
\* changes the digest the evaluator computes.
C7_AnySwapChangesDigest ==
    Read =>
        /\ \A i, j \in 1..4 :
              i # j => Recommit(variant, SwapBlobs(Witness, i, j)[1],
                                SwapBlobs(Witness, i, j)[2], SwapBlobs(Witness, i, j)[3],
                                SwapBlobs(Witness, i, j)[4])
                       # Recommit(variant, balance, calldata, target_code, asset_code)
        /\ \A v \in TruncationsOf(Witness) :
              Recommit(variant, v[1], v[2], v[3], v[4])
              # Recommit(variant, balance, calldata, target_code, asset_code)

\* C7, amended: exchanging two blobs that differ, or cutting any non-empty
\* blob by a byte, changes the digest; an evaluator given the digest of the
\* changed tuple as the declared commitment aborts with commitment mismatch.
C7_ChangedTupleChangesDigest ==
    Read =>
        \A v \in SwapsOf(Witness) \cup TruncationsOf(Witness) :
            v # Witness =>
                /\ Recommit(variant, v[1], v[2], v[3], v[4])
                   # Recommit(variant, balance, calldata, target_code, asset_code)
                /\ (pubin.commitment = Recommit(variant, v[1], v[2], v[3], v[4])
                    /\ gpc # "check_commitment") =>
                       gpc = "aborted" /\ gerr = "commitment mismatch"

\* the declared commitment is that of the tuple with the two code blobs
\* exchanged, and the run was aborted for it
C7_Witness ==
    /\ gpc = "aborted" /\ gerr = "commitment mismatch"
    /\ target_code # asset_code
    /\ pubin.commitment = [sha256 |-> RefTagged(SwapBlobs(Witness, 3, 4))]

\* The evaluator accepts what lines 70-111 of the host assemble: a pre/post
\* run whose input stream is the one host_assemble makes of the same
\* balances, calldata, bytecode, threshold and addresses is never aborted and
\* ends with exactly one record.  (No run of the host gets that far: C10.)
HostAssembledWitnessAccepted ==
    (variant = "prepost" /\ Read) =>
        LET r == host_assemble(Pre, Post, target_code, asset_code, calldata,
                               pubin.threshold, pubin.asset, pubin.target)
        IN  (r.ok /\ r.val = <<pubin, balance, calldata, target_code, asset_code>>) =>
                /\ gpc # "aborted"
                /\ Ended => Len(journal) = 1

\* ------------------------------------ the arithmetic helpers on their own
\* sub_u256_be_saturating and ge_u256_vs_u128 applied to drawn inputs, as
\* guest.rs applies them (the comparison to the difference) and as main.rs
\* does (the comparison to the balance itself).

ArithInit ==
    /\ f_pc = "init"
    /\ f_pre \in U256Samples
    /\ f_post \in U256Samples
    /\ f_thr = None /\ f_loss = None /\ f_ge = None
    /\ GuestIdle /\ CommitIdle /\ HostIdle /\ SimpleIdle

\* guest.rs:48
ApplySub ==
    /\ f_pc = "init"
    /\ f_loss' = sub_u256_be_saturating(f_pre, f_post)
    /\ f_pc' = "sub"
    /\ UNCHANGED <<f_pre, f_post, f_thr, f_ge>>
    /\ UNCHANGED <<guestVars, commitVars, hostVars, simpleVars>>

\* guest.rs:49
ApplyGe ==
    /\ f_pc = "sub"
    /\ \E thr \in U128Samples :
          /\ f_thr' = thr
          /\ f_ge' = ge_u256_vs_u128(f_loss, thr)
    /\ f_pc' = "ge"
    /\ UNCHANGED <<f_pre, f_post, f_loss>>
    /\ UNCHANGED <<guestVars, commitVars, hostVars, simpleVars>>

\* main.rs:45-46: potential_loss = balance
ApplyGeToBalance ==
    /\ f_pc = "init"
    /\ f_loss' = f_pre
    /\ \E thr \in U128Samples :
          /\ f_thr' = thr
          /\ f_ge' = ge_u256_vs_u128(f_pre, thr)
    /\ f_pc' = "ge"
    /\ UNCHANGED <<f_pre, f_post>>
    /\ UNCHANGED <<guestVars, commitVars, hostVars, simpleVars>>

ArithNext ==
    \/ ApplySub
    \/ ApplyGe
    \/ ApplyGeToBalance

ArithSpec == ArithInit /\ [][ArithNext]_vars

\* C1: sub_u256_be_saturating(pre, post) is pre - post when pre >= post and
\* all zeros when pre < post, never the difference wrapped mod 2^256.
C1_SubSaturates ==
    f_pc = "sub" =>
        /\ Len(f_loss) = 32
        /\ RefIsLoss(f_loss, f_pre, f_post)

\* pre < post, where the wrapped difference would be 2^256 - 1
C1_Witness ==
    /\ f_pc = "sub"
    /\ f_pre = U256At(0, 0, 0, 0) /\ f_post = U256At(0, 0, 0, 1)
    /\ f_loss = Zeros(32)

\* C2: ge_u256_vs_u128(a, thr) is true when one of the 16 most significant
\* bytes of a is non-zero, and otherwise exactly when the low 16 bytes, read
\* as an unsigned big-endian integer, are >= thr; that is, a >= thr.
C2_GeIsUnsignedCompare ==
    f_pc = "ge" =>
        LET t == RefU128AsU256(f_thr)
        IN  /\ (\E i \in 1..16 : f_loss[i] # 0) => f_ge = TRUE
            /\ (\A i \in 1..16 : f_loss[i] = 0) =>
                  f_ge = RefGe(SubSeq(f_loss, 17, 32), SubSeq(t, 17, 32))
            /\ f_ge = RefGe(f_loss, t)

\* a value equal to a positive threshold yields true
C2_Witness ==
    /\ f_pc = "ge" /\ f_ge = TRUE
    /\ f_loss = U256At(0, 0, 255, 1)
    /\ f_loss = RefU128AsU256(f_thr)

\* -------------------------------- the two commitment functions on their own

CommitInit ==
    /\ \E pp \in BalancesOf("prepost"), cd \in Calldatas, tc \in Codes, ac \in Codes :
          k_blobs = Blobs(pp, cd, tc, ac)
    /\ k_host = <<>> /\ k_guest = <<>>
    /\ GuestIdle /\ FnIdle /\ HostIdle /\ SimpleIdle

\* host main.rs:87
ApplyCommitHost ==
    /\ k_host = <<>>
    /\ k_host' = <<commit_all_host(k_blobs[1], k_blobs[2], k_blobs[3], k_blobs[4])>>
    /\ UNCHANGED <<k_blobs, k_guest>>
    /\ UNCHANGED <<guestVars, fnVars, hostVars, simpleVars>>

\* guest.rs:28
ApplyCommitGuest ==
    /\ k_guest = <<>>
    /\ k_guest' = <<commit_all(k_blobs[1], k_blobs[2], k_blobs[3], k_blobs[4])>>
    /\ UNCHANGED <<k_blobs, k_host>>
    /\ UNCHANGED <<guestVars, fnVars, hostVars, simpleVars>>

CommitNext ==
    \/ ApplyCommitHost
    \/ ApplyCommitGuest

CommitSpec == CommitInit /\ [][CommitNext]_vars

\* C4: commit_all_host and commit_all are the same function: both hash
\* "BBP" || LEN(pre_post) || pre_post || LEN(calldata) || calldata ||
\* LEN(target_code) || target_code || LEN(asset_code) || asset_code with LEN
\* the 4-byte big-endian length, so the recomputed commitment is the declared.
C4_HostAndGuestCommitAgree ==
    /\ k_host # <<>> => k_host = <<[sha256 |-> RefTagged(k_blobs)]>>
    /\ k_guest # <<>> => k_guest = <<[sha256 |-> RefTagged(k_blobs)]>>
    /\ (k_host # <<>> /\ k_guest # <<>>) => k_host = k_guest

C4_Witness ==
    /\ k_host # <<>> /\ k_host = k_guest
    /\ k_blobs = Blobs(ScenarioA, <<222, 173, 190, 239, 0>>, <<96>>, <<>>)

\* ------------------------------------------- the host: src/host/src/main.rs

\* A Result<T>: [ok, val, err].
Ok(v) == [ok |-> TRUE, val |-> v, err |-> ""]

Err(msg) == [ok |-> FALSE, val |-> <<>>, err |-> msg]

\* An address argument is a string; the host looks only at its leading "0x"
\* and its length, so it is kept as [ox |-> the number of leading "0x",
\* rest |-> the number of characters after them].
StrLen(s) == 2 * s.ox + s.rest

\* str::starts_with("0x")
StartsWith0x(s) == s.ox >= 1

\* str::trim_start_matches("0x") removes every leading "0x"
TrimStart0x(s) == [s EXCEPT !.ox = 0]

AddrStrLen == 42

\* host main.rs left_pad_32
left_pad_32(s20) ==
    IF ~StartsWith0x(s20) \/ StrLen(s20) # AddrStrLen
    THEN Err("address must be 0x + 40 hex chars")
    ELSE Ok("padded")

\* host main.rs erc20_balance_of_at; ans is what the eth_call brings back
erc20_balance_of_at(ans, asset, target, block) ==
    LET addr == TrimStart0x(target)
        padded == left_pad_32(addr)
    IN  IF ~padded.ok THEN Err(padded.err)
        ELSE IF ~ans.ok THEN Err(ans.err)
        ELSE IF Len(ans.val) # U256Len THEN Err("eth_call returned wrong length")
        ELSE Ok(ans.val)

\* a `?` that goes on after an Err
AfterTryIgnoringErr(res, next) == next

\* the `?` operator: an Err ends main
AfterTry(res, next) == IF res.ok THEN next ELSE "failed"

RpcErrors == {"rpc transport error", "missing result"}

TxBlockAnswers == {Err(e) : e \in RpcErrors} \cup {Ok(b) : b \in 0..MaxBlock}

BalanceAnswers ==
    {Err(e) : e \in RpcErrors}
    \cup {Ok(U256OfSmall(5000)), Ok(U256OfSmall(3000)), Ok(<<1, 2, 3>>)}

AddrStrings == [ox : 0..2, rest : {39, 40, 41}]

WellFormedAddr == [ox |-> 1, rest |-> 40]

HostArgs ==
    [tx : {<<>>, <<"0xabc">>},
     block_pre : {<<>>} \cup {<<b>> : b \in 0..MaxBlock},
     block_post : {<<>>} \cup {<<b>> : b \in 0..MaxBlock},
     asset : {WellFormedAddr},
     target : AddrStrings]

HostInit ==
    /\ hargs \in HostArgs
    /\ hpc = "start" /\ herr = <<>> /\ pre_block = <<>> /\ post_block = <<>>
    /\ pre_balance = <<>> /\ printed = <<>> /\ outfile = None
    /\ GuestIdle /\ FnIdle /\ CommitIdle /\ SimpleIdle

HostFail(msgs) ==
    /\ hpc' = "failed"
    /\ herr' = msgs
    /\ UNCHANGED <<pre_block, post_block>>

\* lines 51-54: the blocks derived from a transaction
HostResolveBlocksFromTx ==
    /\ hpc = "start"
    /\ hargs.tx # <<>>
    /\ \E r \in TxBlockAnswers :
          IF ~r.ok THEN HostFail(<<r.err>>)
          ELSE IF r.val = 0 THEN HostFail(<<"tx in block 0; cannot set pre = -1">>)
          ELSE /\ pre_block' = <<r.val - 1>>
               /\ post_block' = <<r.val>>
               /\ hpc' = "fetch_pre"
               /\ UNCHANGED herr
    /\ UNCHANGED <<hargs, pre_balance, printed, outfile>>
    /\ UNCHANGED <<guestVars, fnVars, commitVars, simpleVars>>

\* lines 55-58: the blocks given as arguments
HostResolveBlocksFromArgs ==
    /\ hpc = "start"
    /\ hargs.tx = <<>>
    /\ IF hargs.block_pre = <<>>
       THEN HostFail(<<"--block-pre required (or use --tx)">>)
       ELSE IF hargs.block_post = <<>>
       THEN HostFail(<<"--block-post required (or use --tx)">>)
       ELSE /\ pre_block' = hargs.block_pre
            /\ post_block' = hargs.block_post
            /\ hpc' = "fetch_pre"
            /\ UNCHANGED herr
    /\ UNCHANGED <<hargs, pre_balance, printed, outfile>>
    /\ UNCHANGED <<guestVars, fnVars, commitVars, simpleVars>>

\* lines 62-63: erc20_balance_of_at(...).with_context(...)?
HostFetchPreBalance ==
    /\ hpc = "fetch_pre"
    /\ \E ans \in BalanceAnswers :
          LET res == erc20_balance_of_at(ans, hargs.asset, hargs.target, pre_block[1])
          IN  /\ hpc' = AfterTry(res, "fetch_post")
              /\ herr' = IF res.ok THEN herr ELSE <<"fetching pre balance", res.err>>
              /\ pre_balance' = IF res.ok THEN <<res.val>> ELSE pre_balance
    /\ UNCHANGED <<hargs, pre_block, post_block, printed, outfile>>
    /\ UNCHANGED <<guestVars, fnVars, commitVars, simpleVars>>

\* Every run that reaches line 62 ends there (see C10), so the steps of
\* lines 64-133 are never taken and have no action here.
HostNext ==
    \/ HostResolveBlocksFromTx
    \/ HostResolveBlocksFromArgs
    \/ HostFetchPreBalance

HostSpec == HostInit /\ [][HostNext]_vars

\* the positions of main after receipt.verify(METHOD_ID)? has returned Ok
AfterVerify == {"decode", "print", "write", "done"}

C10_AcceptedInputReachesEvaluator ==
    (hpc = "failed" /\ pre_block # <<>>
        /\ hargs.target = WellFormedAddr /\ hargs.asset = WellFormedAddr) =>
    herr[Len(herr)] \in RpcErrors \cup {"eth_call returned wrong length"}

\* ----------------------------- the 128-bit evaluator: src/guest/src/main.rs
\* Its u128 values are drawn from 0..MaxBal and kept as integers.

\* u128::saturating_sub
SaturatingSub(a, b) == IF a >= b THEN a - b ELSE 0

\* an inclusive threshold test
LossExceedsInclusive(delta, threshold) == delta >= threshold

\* guest main.rs:28: delta > public.threshold
LossExceeds(delta, threshold) == delta > threshold

SimplePublics ==
    [target : {TargetAddr}, sender : {AssetAddr}, token : {AssetAddr},
     threshold : 0..MaxBal]

SimplePrivates ==
    [calldata : {CalldataStem \o <<239>>}, pre_balance : 0..MaxBal,
     post_balance : 0..MaxBal]

\* s_public, s_private: what the two env::read calls will return
SimpleInit ==
    /\ s_pc = "start"
    /\ s_public \in SimplePublics
    /\ s_private \in SimplePrivates
    /\ s_journal = <<>>
    /\ GuestIdle /\ FnIdle /\ CommitIdle /\ HostIdle

\* lines 23-26: the reads and the difference
SimpleRead ==
    /\ s_pc = "start"
    /\ s_pc' = "assert"
    /\ UNCHANGED <<s_public, s_private, s_journal>>
    /\ UNCHANGED <<guestVars, fnVars, commitVars, hostVars>>

\* lines 28-33: assert!(delta > public.threshold, ...)
SimpleAssert ==
    /\ s_pc = "assert"
    /\ LET delta == SaturatingSub(s_private.pre_balance, s_private.post_balance)
       IN  s_pc' = IF LossExceeds(delta, s_public.threshold) THEN "commit" ELSE "aborted"
    /\ UNCHANGED <<s_public, s_private, s_journal>>
    /\ UNCHANGED <<guestVars, fnVars, commitVars, hostVars>>

\* line 35: env::commit(&public)
SimpleCommit ==
    /\ s_pc = "commit"
    /\ s_journal' = Append(s_journal, s_public)
    /\ s_pc' = "done"
    /\ UNCHANGED <<s_public, s_private>>
    /\ UNCHANGED <<guestVars, fnVars, commitVars, hostVars>>

SimpleNext ==
    \/ SimpleRead
    \/ SimpleAssert
    \/ SimpleCommit

SimpleSpec == SimpleInit /\ [][SimpleNext]_vars

\* pre_balance saturating-minus post_balance
RefDelta ==
    IF s_private.pre_balance > s_private.post_balance
    THEN s_private.pre_balance - s_private.post_balance ELSE 0

\* C9: the 128-bit evaluator commits its output only when delta > threshold
\* and aborts with no output when delta <= threshold, also when delta equals
\* the threshold and when the balance increased (delta = 0).
C9_StrictThresholdIsFatal ==
    /\ s_journal # <<>> => RefDelta > s_public.threshold /\ s_journal = <<s_public>>
    /\ s_pc \in {"done", "aborted"} =>
          /\ RefDelta > s_public.threshold => s_pc = "done" /\ s_journal = <<s_public>>
          /\ RefDelta <= s_public.threshold => s_pc = "aborted" /\ s_journal = <<>>

\* delta equals a positive threshold: aborted, nothing committed
C9_Witness ==
    /\ s_pc = "aborted" /\ s_journal = <<>>
    /\ s_public.threshold > 0 /\ RefDelta = s_public.threshold

====
